---- MODULE Spec2Model ----
(***************************************************************************)
(* Model of the Tenexium validator core (src/scripts): the SQLite-backed   *)
(* ValidatorDataStore, the MetricsPoller background thread and the weight  *)
(* computation of TenexiumValidator.                                       *)
(*                                                                         *)
(* Four specifications share the definitions below:                        *)
(*   SpecStore   - two threads calling the store's methods under its lock, *)
(*                 with the wall clock advancing;                          *)
(*   SpecPoller  - a caller of MetricsPoller.start()/stop() and the        *)
(*                 polling threads those calls create;                     *)
(*   SpecWeights - get_unnormalized_weights()/prepare_weights() applied to *)
(*                 inputs drawn from bounded sets;                         *)
(*   SpecRates   - the rate arithmetic of get_24h_calculations() and of    *)
(*                 the validator applied to sequences of snapshots.        *)
(*                                                                         *)
(* Python floats are modelled as exact rationals <<n, d>> with d > 0       *)
(* (floating-point rounding is not modelled).                              *)
(***************************************************************************)
EXTENDS Integers, Sequences, FiniteSets, TLC

\* ------------------------------------------------------------------ bounds
\* Rows the model lets the threads insert (caps the AUTOINCREMENT id).
MaxInserts == 2
\* The wall clock advances in steps of one day and of one second; it stops
\* MaxDays days and MaxSeconds seconds after InitialClock.
MaxDays == 1
MaxSeconds == 1
\* Polling threads start() may create over a run.
MaxThreads == 2
\* The metagraph holds the uids 0 .. MaxUid.
MaxUid == 2
\* Snapshots handed to one rate derivation.
MaxPoints == 2
\* Times the chain's block height grows while the validator runs.
MaxBlockSteps == 4

\* ------------------------------------------------------------ rationals
RECURSIVE GCD(_, _)
GCD(a, b) == IF b = 0 THEN a ELSE GCD(b, a % b)

Abs(x) == IF x < 0 THEN -x ELSE x

\* The rational n/d (d # 0) in lowest terms with a positive denominator.
Rat(n, d) ==
    LET g == GCD(Abs(n), Abs(d))
        s == IF d < 0 THEN -1 ELSE 1
    IN  <<(s * n) \div g, (s * d) \div g>>

RInt(n) == <<n, 1>>
RAdd(a, b) ==
    LET g == GCD(a[2], b[2])
    IN  Rat(a[1] * (b[2] \div g) + b[1] * (a[2] \div g), (a[2] \div g) * b[2])
RNeg(a) == <<-a[1], a[2]>>
RSub(a, b) == RAdd(a, RNeg(b))
RMul(a, b) ==
    LET g1 == GCD(Abs(a[1]), b[2])
        g2 == GCD(Abs(b[1]), a[2])
    IN  Rat((a[1] \div g1) * (b[1] \div g2), (a[2] \div g2) * (b[2] \div g1))
\* Only used with b # 0; the callers model ZeroDivisionError themselves.
RInv(b) == IF b[1] < 0 THEN <<-b[2], -b[1]>> ELSE <<b[2], b[1]>>
RDiv(a, b) == RMul(a, RInv(b))
RLt(a, b) == RSub(a, b)[1] < 0
RLe(a, b) == RSub(a, b)[1] <= 0
RIsZero(a) == a[1] = 0
RIsInt(a) == a[2] = 1
RMin(a, b) == IF RLe(a, b) THEN a ELSE b

RECURSIVE RSum(_)
RSum(seq) == IF seq = <<>> THEN RInt(0) ELSE RAdd(seq[1], RSum(Tail(seq)))

\* --------------------------------------------------------------- the store
\* data_store.py:111, 193: 24 * 60 * 60 seconds.
DAY == 24 * 60 * 60
\* data_store.py:186: seconds per hour.
HOUR == 3600
\* The clock reading when the model starts (two days after the epoch, so that
\* rows older than the retention window can already exist).
InitialClock == 2 * DAY

\* The main (validator) thread, and the polling threads.
Main == 0
PollerTids == 1 .. MaxThreads
Threads == 0 .. MaxThreads
NoThread == -1
\* No clock reading (the clock is positive).
NoTime == -1

None == "None"
NoCall == <<"none", "none">>
NoInput == [kind |-> "none"]
\* What a call hands back to its caller: None, a pair of rows, a float, an
\* int, a status of start()/stop(), or an exception.
RetNone == [kind |-> "none"]
RetPair(oldest, newest) == [kind |-> "pair", oldest |-> oldest, newest |-> newest]
RetFloat(x) == [kind |-> "float", val |-> x]
RetInt(n) == [kind |-> "int", val |-> n]
RetStatus(s) == [kind |-> "status", val |-> s]
RetRaised(e) == [kind |-> "raised", error |-> e]
NoResult == [status |-> "none"]

\* What one poll reads from the chain, already converted to TAO
\* (metrics_poller.py:134-146).
ChainReadings ==
    { [eth_block_number |-> 100, total_trading_fees |-> RInt(10),
       total_borrowing_fees |-> RInt(4), subnet_price |-> RInt(1),
       total_liquidity |-> RInt(100)] }

\* A row of table metrics (data_store.py:35-43).
Row(id, ts, rd) ==
    [id |-> id, timestamp |-> ts,
     eth_block_number |-> rd.eth_block_number,
     total_trading_fees |-> rd.total_trading_fees,
     total_borrowing_fees |-> rd.total_borrowing_fees,
     subnet_price |-> rd.subnet_price,
     total_liquidity |-> rd.total_liquidity]

VARIABLES
    clock,          \* int(time.time())
    metrics,        \* table metrics: its rows in rowid order
    next_id,        \* the next AUTOINCREMENT id
    lock,           \* ValidatorDataStore.lock: its holder, or NoThread
    connection,     \* "open" | "closed"
    in_txn,         \* a statement has run on the connection and is not committed
    deleted_count,  \* prune_old_data: cursor.rowcount of its last DELETE
    prune_time,     \* prune_old_data: current_time of its last DELETE, or NoTime
    last_write,     \* history: the last committed write, <<"insert" | "prune", the
                    \* clock reading it was executed at>>, or <<"none", NoTime>>
    pc,             \* per thread: its place in the caller's code
    call,           \* per thread: <<store method, phase>> or NoCall
    ret,            \* what the call that ended last returned (a polling
                    \* thread uses what a call returns at once, see AfterCall)
    running,        \* MetricsPoller.running
    stop_event,     \* MetricsPoller.stop_event
    polling_thread, \* MetricsPoller.polling_thread: a thread id or NoThread
    subtensor,      \* MetricsPoller.subtensor: "None" | "conn"
    signalled,      \* history: the polling threads that were alive at a
                    \* stop_event.set()
    w_in,           \* what one weight computation reads (NoInput outside SpecWeights)
    w_out,          \* what prepare_weights() gave: NoResult before it has run
    block,          \* the chain's block height, counted from the height at
                    \* which TenexiumValidator was constructed
    current_block,  \* run_validator: the block height the validator read last
    last_weight_update_block,   \* TenexiumValidator.last_weight_update_block
    submitted       \* history: the block heights (current_block) of the loop's
                    \* successful weight submissions, in their order

storeVars == <<clock, metrics, next_id, lock, connection, in_txn,
               deleted_count, prune_time, last_write>>
threadVars == <<pc, call, ret>>
pollerVars == <<running, stop_event, polling_thread, subtensor, signalled>>
loopVars == <<block, current_block, last_weight_update_block, submitted>>
weightVars == <<w_in, w_out, loopVars>>
vars == <<clock, metrics, next_id, lock, connection, in_txn, deleted_count,
          prune_time, last_write, pc, call, ret, running, stop_event,
          polling_thread, subtensor, signalled, w_in, w_out, block,
          current_block, last_weight_update_block, submitted>>

\* ------------------------------------------------------------- the clock
\* time.time() moves forward by a day, or by a second.
TickDay ==
    /\ (clock - InitialClock) \div DAY < MaxDays
    /\ clock' = clock + DAY
    /\ UNCHANGED <<metrics, next_id, lock, connection, in_txn, deleted_count,
                   prune_time, last_write>>
    /\ UNCHANGED <<threadVars, pollerVars, weightVars>>

\* (The model counts seconds before it counts days.)
TickSecond ==
    /\ clock - InitialClock < MaxSeconds
    /\ clock' = clock + 1
    /\ UNCHANGED <<metrics, next_id, lock, connection, in_txn, deleted_count,
                   prune_time, last_write>>
    /\ UNCHANGED <<threadVars, pollerVars, weightVars>>

\* ----------------------------------------------- calls into the store
\* Where a thread continues when its store call ends. site: the thread's pc
\* (the call site); outcome: "ok" | "raise"; value: what the call returned.
\*   "client": a thread that calls the store's methods directly.
\*   "poll0":  the initial poll (metrics_poller.py:94), outside the inner try.
\*   "poll", "count", "prune": the loop's try block (metrics_poller.py:97-107);
\*             an exception goes to the handler at 109-112.
PruneEvery == 10

\* Rows a table left by an earlier run of the validator holds: two fewer than
\* the prune period, so that the second insert of a run makes the count a
\* multiple of it.
InitialRows == PruneEvery - 2

AfterCall(site, outcome, value) ==
    CASE site = "client" -> "client"
      [] site = "poll0" -> IF outcome = "ok" THEN "check" ELSE "finally_exc"
      [] site = "poll" -> IF outcome = "ok" THEN "count" ELSE "backoff"
      [] site = "count" ->
            IF outcome = "ok"
            THEN (IF value % PruneEvery = 0 THEN "prune" ELSE "check")
            ELSE "backoff"
      [] site = "prune" -> IF outcome = "ok" THEN "check" ELSE "backoff"
      [] site = "cleanup_close" -> "exited"
      [] OTHER -> site

\* The end of a call by thread t: the lock is released (the with statement's
\* exit), and t continues after the call with what it returned or raised.
Return(t, outcome, value) ==
    /\ lock' = NoThread
    /\ call' = [call EXCEPT ![t] = NoCall]
    /\ ret' = value
    /\ pc' = [pc EXCEPT ![t] = AfterCall(pc[t], outcome, 0)]

ReturnInt(t, n) ==
    /\ lock' = NoThread
    /\ call' = [call EXCEPT ![t] = NoCall]
    /\ ret' = RetInt(n)
    /\ pc' = [pc EXCEPT ![t] = AfterCall(pc[t], "ok", n)]

\* `with self.lock:` threading.Lock.acquire() blocks while another thread
\* holds the lock.
\* (Faulty variant: the lock never blocks.)
LockFreeMutant == TRUE

LockFree == lock = NoThread

Acquire(t) ==
    /\ call[t][2] = "want"
    /\ LockFree
    /\ lock' = t
    /\ call' = [call EXCEPT ![t] = <<call[t][1], "exec">>]
    /\ UNCHANGED <<clock, metrics, next_id, connection, in_txn, deleted_count,
                   prune_time, last_write>>
    /\ UNCHANGED <<pc, ret, pollerVars, weightVars>>

\* self.connection.cursor() on a closed connection raises
\* sqlite3.ProgrammingError, which leaves the with block.
RaiseClosed(t, op) ==
    /\ call[t] = <<op, "exec">>
    /\ connection = "closed"
    /\ Return(t, "raise", RetRaised("ProgrammingError"))
    /\ UNCHANGED <<clock, metrics, next_id, connection, in_txn, deleted_count,
                   prune_time, last_write>>
    /\ UNCHANGED <<pollerVars, weightVars>>

\* insert_metric, data_store.py:77-92: INSERT INTO metrics adds the row to
\* the table and touches no other row.
\* (Faulty variant: INSERT OR REPLACE over the newest row.)
InsertRowMutant(rows, row) ==
    IF rows = <<>> THEN <<row>> ELSE [rows EXCEPT ![Len(rows)] = row]

InsertRow(rows, row) == Append(rows, row)

\* insert_metric, data_store.py:73-93: the row is stamped with the clock and
\* executed.
InsertExec(t) ==
    /\ call[t] = <<"insert", "exec">>
    /\ connection = "open"
    /\ \E rd \in ChainReadings :
          metrics' = InsertRow(metrics, Row(next_id, clock, rd))
    /\ next_id' = next_id + 1
    /\ in_txn' = TRUE
    /\ call' = [call EXCEPT ![t] = <<"insert", "commit">>]
    /\ UNCHANGED <<clock, lock, connection, deleted_count, prune_time, last_write>>
    /\ UNCHANGED <<pc, ret, pollerVars, weightVars>>

\* insert_metric, data_store.py:95-99: commit, and the end of the with block.
InsertCommit(t) ==
    /\ call[t] = <<"insert", "commit">>
    /\ in_txn' = FALSE
    /\ last_write' = <<"insert", metrics[Len(metrics)].timestamp>>
    /\ Return(t, "ok", RetNone)
    /\ UNCHANGED <<clock, metrics, next_id, connection, deleted_count, prune_time>>
    /\ UNCHANGED <<pollerVars, weightVars>>

\* prune_old_data, data_store.py:195-198: the rows DELETE ... WHERE
\* timestamp < ? leaves, given the rows and time_24h_ago.
\* (Faulty variant: timestamp <= ? also deletes the row at the cutoff.)
PruneKeepMutant(rows, time_24h_ago) ==
    SelectSeq(rows, LAMBDA r : ~(r.timestamp <= time_24h_ago))

PruneKeep(rows, time_24h_ago) ==
    SelectSeq(rows, LAMBDA r : ~(r.timestamp < time_24h_ago))

\* cursor.rowcount after the DELETE (data_store.py:200): the rows it removed.
\* (Faulty variant: the rows the table held.)
RowcountMutant(rows, kept) == Len(rows)

Rowcount(rows, kept) == Len(rows) - Len(kept)

\* prune_old_data, data_store.py:190-200.
PruneExec(t) ==
    /\ call[t] = <<"prune", "exec">>
    /\ connection = "open"
    /\ LET current_time == clock
           time_24h_ago == current_time - DAY
           kept == PruneKeep(metrics, time_24h_ago)
       IN  /\ metrics' = kept
           /\ deleted_count' = Rowcount(metrics, kept)
           /\ prune_time' = current_time
    /\ in_txn' = TRUE
    /\ call' = [call EXCEPT ![t] = <<"prune", "commit">>]
    /\ UNCHANGED <<clock, next_id, lock, connection, last_write>>
    /\ UNCHANGED <<pc, ret, pollerVars, weightVars>>

\* prune_old_data, data_store.py:201-204: commit; the method returns nothing.
PruneCommit(t) ==
    /\ call[t] = <<"prune", "commit">>
    /\ in_txn' = FALSE
    /\ last_write' = <<"prune", prune_time>>
    /\ Return(t, "ok", RetNone)
    /\ UNCHANGED <<clock, metrics, next_id, connection, deleted_count, prune_time>>
    /\ UNCHANGED <<pollerVars, weightVars>>

\* The rows with timestamp >= time_24h_ago, in rowid order.
\* (Faulty variant: timestamp > ? leaves out the row at the cutoff.)
InWindowMutant(rows, time_24h_ago) ==
    SelectSeq(rows, LAMBDA r : r.timestamp > time_24h_ago)

InWindow(rows, time_24h_ago) ==
    SelectSeq(rows, LAMBDA r : r.timestamp >= time_24h_ago)

\* ORDER BY timestamp ASC LIMIT 1: the first row, in rowid order, of the
\* least timestamp (the index on timestamp keeps equal keys in rowid order).
OldestOf(rows) ==
    LET i == CHOOSE i \in 1 .. Len(rows) :
                 /\ \A j \in 1 .. Len(rows) : rows[i].timestamp <= rows[j].timestamp
                 /\ \A j \in 1 .. (i - 1) : rows[j].timestamp > rows[i].timestamp
    IN  rows[i]

\* ORDER BY timestamp DESC LIMIT 1: the index is walked backwards, so of the
\* rows with the greatest timestamp the last in rowid order comes first.
NewestOf(rows) ==
    LET i == CHOOSE i \in 1 .. Len(rows) :
                 /\ \A j \in 1 .. Len(rows) : rows[j].timestamp <= rows[i].timestamp
                 /\ \A j \in (i + 1) .. Len(rows) : rows[j].timestamp < rows[i].timestamp
    IN  rows[i]

\* data_store.py:151-161: the dictionary made of a selected row (the query
\* does not select the id).
Snapshot(r) ==
    [timestamp |-> r.timestamp,
     eth_block_number |-> r.eth_block_number,
     total_trading_fees |-> r.total_trading_fees,
     total_borrowing_fees |-> r.total_borrowing_fees,
     subnet_price |-> r.subnet_price,
     total_liquidity |-> r.total_liquidity]

\* get_24h_data, data_store.py:108-164: what it returns at clock reading now.
Get24hData(rows, now) ==
    LET time_24h_ago == now - DAY
        window == InWindow(rows, time_24h_ago)
    IN  IF window = <<>> THEN RetNone
        ELSE RetPair(Snapshot(OldestOf(window)), Snapshot(NewestOf(rows)))

Get24hExec(t) ==
    /\ call[t] = <<"get24h", "exec">>
    /\ connection = "open"
    /\ Return(t, "ok", Get24hData(metrics, clock))
    /\ UNCHANGED <<clock, metrics, next_id, connection, in_txn, deleted_count,
                   prune_time, last_write>>
    /\ UNCHANGED <<pollerVars, weightVars>>

\* get_data_age_hours, data_store.py:173-186: hours between the least and
\* the greatest timestamp; 0.0 on an empty table (MIN is NULL) and when the
\* least timestamp is 0 (`not result[0]`).
\* (Faulty variant: the age of the newest row in rowid order over the first.)
DataAgeHoursMutant(rows) ==
    IF rows = <<>> THEN RInt(0)
    ELSE Rat(rows[Len(rows)].timestamp - rows[1].timestamp, DAY)

DataAgeHours(rows) ==
    IF rows = <<>> \/ OldestOf(rows).timestamp = 0 THEN RInt(0)
    ELSE Rat(NewestOf(rows).timestamp - OldestOf(rows).timestamp, HOUR)

AgeExec(t) ==
    /\ call[t] = <<"age", "exec">>
    /\ connection = "open"
    /\ Return(t, "ok", RetFloat(DataAgeHours(metrics)))
    /\ UNCHANGED <<clock, metrics, next_id, connection, in_txn, deleted_count,
                   prune_time, last_write>>
    /\ UNCHANGED <<pollerVars, weightVars>>

\* get_record_count, data_store.py:208-211.
CountExec(t) ==
    /\ call[t] = <<"count", "exec">>
    /\ connection = "open"
    /\ ReturnInt(t, Len(metrics))
    /\ UNCHANGED <<clock, metrics, next_id, connection, in_txn, deleted_count,
                   prune_time, last_write>>
    /\ UNCHANGED <<pollerVars, weightVars>>

\* close, data_store.py:215-218 (closing a closed connection does nothing).
CloseExec(t) ==
    /\ call[t] = <<"close", "exec">>
    /\ connection' = "closed"
    /\ Return(t, "ok", RetNone)
    /\ UNCHANGED <<clock, metrics, next_id, in_txn, deleted_count,
                   prune_time, last_write>>
    /\ UNCHANGED <<pollerVars, weightVars>>

\* One step of thread t inside a store method.
StoreStep(t) ==
    \/ Acquire(t)
    \/ InsertExec(t)
    \/ InsertCommit(t)
    \/ PruneExec(t)
    \/ PruneCommit(t)
    \/ Get24hExec(t)
    \/ AgeExec(t)
    \/ CountExec(t)
    \/ CloseExec(t)
    \/ \E op \in {"insert", "prune", "get24h", "age", "count"} : RaiseClosed(t, op)

\* Inserts called and not yet executed.
PendingInserts ==
    Cardinality({u \in Threads : call[u] \in {<<"insert", "want">>, <<"insert", "exec">>}})

\* The model stops inserting after MaxInserts rows.
MayInsert == next_id + PendingInserts <= InitialRows + MaxInserts

\* ------------------------------------------- SpecStore: the store's callers
\* The methods each thread calls: the polling thread inserts, counts and
\* prunes (metrics_poller.py:106-107, 149); the validator thread reads and
\* closes (validator.py:172, 289; metrics_poller.py:251, 261-262).
ClientOps(t) ==
    IF t = Main THEN {"get24h", "age", "count", "close"}
    ELSE {"insert", "count", "prune"}

\* A thread calls a method; what the previous call returned is no longer
\* held.
ClientCall(t) ==
    /\ pc[t] = "client"
    /\ call[t] = NoCall
    /\ \E op \in ClientOps(t) :
          /\ op = "insert" => MayInsert
          /\ call' = [call EXCEPT ![t] = <<op, "want">>]
    /\ ret' = RetNone
    /\ UNCHANGED <<storeVars, pc, pollerVars, weightVars>>

\* The methods class ValidatorDataStore defines (data_store.py:15-218).
StoreMethods ==
    {"__init__", "_initialize_database", "insert_metric", "get_24h_data",
     "get_data_age_hours", "prune_old_data", "get_record_count", "close"}

\* get_24h_calculations, metrics_poller.py:177: its first statement calls
\* self.data_store.get_all_24h_data(), an attribute the store does not have:
\* the lookup raises AttributeError before the store's lock is touched, and
\* lines 179-244 are not reached.
Get24hCalculationsCall(t) ==
    /\ pc[t] = "client"
    /\ call[t] = NoCall
    /\ "get_all_24h_data" \notin StoreMethods
    /\ ret' = RetRaised("AttributeError")
    /\ UNCHANGED <<storeVars, pc, call, pollerVars, weightVars>>

\* get_unnormalized_weights, validator.py:160: the weight computation begins
\* with a read of the chain's block number.
GetUnnormalizedWeightsEnter(t) ==
    /\ pc[t] = "client"
    /\ call[t] = NoCall
    /\ call' = [call EXCEPT ![t] = <<"weights", "rates">>]
    /\ ret' = RetNone
    /\ UNCHANGED <<storeVars, pc, pollerVars, weightVars>>

\* get_unnormalized_weights, validator.py:162: the rates are asked of
\* get_24h_calculations(), whose first statement raises (see
\* Get24hCalculationsCall). Lines 156-277 have no handler, so the exception
\* leaves get_unnormalized_weights before the test of line 164.
GetUnnormalizedWeightsRates(t) ==
    /\ call[t] = <<"weights", "rates">>
    /\ "get_all_24h_data" \notin StoreMethods
    /\ call' = [call EXCEPT ![t] = NoCall]
    /\ ret' = RetRaised("AttributeError")
    /\ UNCHANGED <<storeVars, pc, pollerVars, weightVars>>

StoreClients == {Main, 1}

StaleReading == CHOOSE rd \in ChainReadings : TRUE

\* The table when the validator starts: empty, or left by an earlier run with
\* rows older than the retention window (the first of them polled an hour
\* before the others). AUTOINCREMENT continues after the
\* largest id ever used, whether or not its row is still there.
StaleTable ==
    [i \in 1 .. InitialRows |->
        Row(i, IF i = 1 THEN InitialClock - DAY - 1 - HOUR ELSE InitialClock - DAY - 1,
            StaleReading)]

InitialTables == { <<>>, StaleTable }

InitDefaults ==
    /\ clock = InitialClock
    /\ lock = NoThread
    /\ connection = "open"
    /\ in_txn = FALSE
    /\ deleted_count = 0
    /\ prune_time = NoTime
    /\ last_write = <<"none", NoTime>>
    /\ call = [t \in Threads |-> NoCall]
    /\ ret = RetNone
    /\ running = FALSE
    /\ stop_event = FALSE
    /\ polling_thread = NoThread
    /\ subtensor = None
    /\ signalled = {}
    /\ block = 0
    /\ current_block = 0
    /\ last_weight_update_block = 0
    /\ submitted = <<>>

InitStore ==
    /\ InitDefaults
    /\ metrics \in InitialTables
    /\ next_id = InitialRows + 1
    /\ pc = [t \in Threads |-> IF t \in StoreClients THEN "client" ELSE "unborn"]
    /\ w_in = NoInput
    /\ w_out = NoResult

NextStore ==
    \/ TickDay
    \/ TickSecond
    \/ \E t \in StoreClients : ClientCall(t)
    \/ \E t \in StoreClients : StoreStep(t)
    \/ Get24hCalculationsCall(Main)
    \/ GetUnnormalizedWeightsEnter(Main)
    \/ GetUnnormalizedWeightsRates(Main)

SpecStore == InitStore /\ [][NextStore]_vars


\* --------------------------------------------------- MetricsPoller threads
\* A polling thread that has been started and has not ended.
Alive(t) == pc[t] \notin {"unborn", "ended", "crashed"}

\* metrics_poller.py:88-91: the thread opens its own subtensor connection;
\* an exception here leaves the outer try (there is no handler).
Connect(t) ==
    /\ pc[t] = "connect"
    /\ \/ /\ subtensor' = "conn"
          /\ pc' = [pc EXCEPT ![t] = "poll0"]
       \/ /\ pc' = [pc EXCEPT ![t] = "finally_exc"]
          /\ UNCHANGED subtensor
    /\ UNCHANGED <<storeVars, call, ret, running, stop_event, polling_thread,
                   signalled, weightVars>>

\* Where the thread goes when _poll_metrics raises (it logs and re-raises,
\* metrics_poller.py:165-167): the initial poll at line 94 is outside the
\* loop's try block, so the exception ends the thread; a poll at line 103 is
\* caught at 109-112.
OnPollError(site) == AfterCall(site, "raise", 0)

\* _poll_metrics, metrics_poller.py:128-155, up to the call of insert_metric:
\* without a subtensor it returns at once; a chain read may raise; otherwise
\* insert_metric is called.
PollRead(t) ==
    /\ pc[t] \in {"poll0", "poll"}
    /\ call[t] = NoCall
    /\ \/ /\ subtensor = None
          /\ pc' = [pc EXCEPT ![t] = AfterCall(pc[t], "ok", 0)]
          /\ UNCHANGED call
       \/ /\ subtensor # None
          /\ pc' = [pc EXCEPT ![t] = OnPollError(pc[t])]
          /\ UNCHANGED call
       \/ /\ subtensor # None
          /\ MayInsert
          /\ call' = [call EXCEPT ![t] = <<"insert", "want">>]
          /\ UNCHANGED pc
    /\ UNCHANGED <<storeVars, ret, pollerVars, weightVars>>

\* metrics_poller.py:96: while not self.stop_event.is_set().
LoopCheck(t) ==
    /\ pc[t] = "check"
    /\ pc' = [pc EXCEPT ![t] = IF stop_event THEN "finally_ok" ELSE "wait"]
    /\ UNCHANGED <<storeVars, call, ret, pollerVars, weightVars>>

\* metrics_poller.py:99-103: `if self.stop_event.wait(...): break`; a wait
\* that returned True leaves the loop, one that returned False is followed by
\* the poll.
\* (Faulty variant: the result of wait() is not tested.)
AfterWaitMutant(signal) == "poll"

AfterWait(signal) == IF signal THEN "finally_ok" ELSE "poll"

\* metrics_poller.py:99: stop_event.wait(timeout) returns True at once when
\* the event is set, and blocks otherwise.
WaitEnter(t) ==
    /\ pc[t] = "wait"
    /\ pc' = [pc EXCEPT ![t] = IF stop_event THEN AfterWait(TRUE) ELSE "waiting"]
    /\ UNCHANGED <<storeVars, call, ret, pollerVars, weightVars>>

\* The wait times out after poll_interval_seconds: it returns False and the
\* thread polls (metrics_poller.py:103).
WaitTimeout(t) ==
    /\ pc[t] = "waiting"
    /\ pc' = [pc EXCEPT ![t] = AfterWait(FALSE)]
    /\ UNCHANGED <<storeVars, call, ret, pollerVars, weightVars>>

\* A thread that set() woke: its wait returns True whatever the event is by
\* now, and the loop breaks (metrics_poller.py:99-100).
WaitWoken(t) ==
    /\ pc[t] = "woken"
    /\ pc' = [pc EXCEPT ![t] = AfterWait(TRUE)]
    /\ UNCHANGED <<storeVars, call, ret, pollerVars, weightVars>>

\* metrics_poller.py:106-107: the calls of get_record_count and
\* prune_old_data.
LoopCall(t) ==
    /\ pc[t] \in {"count", "prune"}
    /\ call[t] = NoCall
    /\ call' = [call EXCEPT ![t] = <<pc[t], "want">>]
    /\ UNCHANGED <<storeVars, pc, ret, pollerVars, weightVars>>

\* metrics_poller.py:109-112: the handler logs and sleeps 5 seconds.
Backoff(t) ==
    /\ pc[t] = "backoff"
    /\ pc' = [pc EXCEPT ![t] = "check"]
    /\ UNCHANGED <<storeVars, call, ret, pollerVars, weightVars>>

\* metrics_poller.py:114-121: the finally block drops the subtensor; the
\* thread ends, after the loop or with the exception that left the try.
Finally(t) ==
    /\ pc[t] \in {"finally_ok", "finally_exc"}
    /\ subtensor' = None
    /\ pc' = [pc EXCEPT ![t] = IF pc[t] = "finally_ok" THEN "ended" ELSE "crashed"]
    /\ UNCHANGED <<storeVars, call, ret, running, stop_event, polling_thread,
                   signalled, weightVars>>

PollerStep(t) ==
    \/ Connect(t)
    \/ PollRead(t)
    \/ LoopCheck(t)
    \/ WaitEnter(t)
    \/ WaitTimeout(t)
    \/ WaitWoken(t)
    \/ LoopCall(t)
    \/ Backoff(t)
    \/ Finally(t)

\* The store steps a polling thread takes.
PollerStoreStep(t) ==
    \/ Acquire(t)
    \/ InsertExec(t)
    \/ InsertCommit(t)
    \/ PruneExec(t)
    \/ PruneCommit(t)
    \/ CountExec(t)

\* ------------------------------------------- MetricsPoller.start and stop
\* The caller (the main thread) enters start() or stop().
CallStart ==
    /\ pc[Main] = "client"
    /\ pc' = [pc EXCEPT ![Main] = "start"]
    /\ UNCHANGED <<storeVars, call, ret, pollerVars, weightVars>>

CallStop ==
    /\ pc[Main] = "client"
    /\ pc' = [pc EXCEPT ![Main] = "stop"]
    /\ UNCHANGED <<storeVars, call, ret, pollerVars, weightVars>>

\* The thread start() creates: the model numbers the threads in the order of
\* their creation.
NewThread == CHOOSE t \in PollerTids : pc[t] = "unborn" /\ \A u \in PollerTids : u < t => pc[u] # "unborn"

\* start(), metrics_poller.py:53-55: the guard that makes a second start()
\* return at once.
\* (Faulty variant: no guard.)
AlreadyRunningMutant == FALSE

AlreadyRunning == running

\* start(), metrics_poller.py:53-67.
Start ==
    /\ pc[Main] = "start"
    /\ \/ /\ AlreadyRunning
          /\ pc' = [pc EXCEPT ![Main] = "client"]
          /\ ret' = RetStatus("already_running")
          /\ UNCHANGED <<running, stop_event, polling_thread>>
       \/ /\ ~AlreadyRunning
          /\ \E t \in PollerTids : pc[t] = "unborn"
          /\ stop_event' = FALSE
          /\ running' = TRUE
          /\ polling_thread' = NewThread
          /\ pc' = [pc EXCEPT ![Main] = "client", ![NewThread] = "connect"]
          /\ ret' = RetStatus("started")
    /\ UNCHANGED <<storeVars, call, subtensor, signalled, weightVars>>

\* Where the caller of stop() continues: cleanup() goes on to close the store
\* (validator.py:285-289), any other caller is back in its own code.
AfterStop == IF call[Main] = <<"cleanup", "stop">> THEN "cleanup_close" ELSE "client"

\* stop(), metrics_poller.py:71-75: a stop() of a poller that is not running
\* returns; otherwise the event is set, which wakes every thread blocked in
\* stop_event.wait().
StopSignal ==
    /\ pc[Main] = "stop"
    /\ \/ /\ ~running
          /\ pc' = [pc EXCEPT ![Main] = AfterStop]
          /\ ret' = RetStatus("not_running")
          /\ UNCHANGED <<stop_event, signalled>>
       \/ /\ running
          /\ stop_event' = TRUE
          /\ signalled' = signalled \cup {t \in PollerTids : Alive(t)}
          /\ pc' = [t \in Threads |->
                      IF t = Main THEN "join"
                      ELSE IF pc[t] = "waiting" THEN "woken" ELSE pc[t]]
          /\ UNCHANGED ret
    /\ UNCHANGED <<storeVars, call, running, polling_thread, subtensor, weightVars>>

\* stop(), metrics_poller.py:80: the poller is marked stopped.
\* (Faulty variant: stopped only when the join ended the thread.)
RunningAfterStopMutant == Alive(polling_thread)

RunningAfterStop == FALSE

\* stop(), metrics_poller.py:77-81: join(timeout=10) returns when the thread
\* has ended, or after 10 seconds while it is still alive, so the step is
\* enabled in either case.
StopJoin ==
    /\ pc[Main] = "join"
    /\ running' = RunningAfterStop
    /\ pc' = [pc EXCEPT ![Main] = AfterStop]
    /\ ret' = RetStatus("stopped")
    /\ UNCHANGED <<storeVars, call, stop_event, polling_thread, subtensor,
                   signalled, weightVars>>

\* ------------------------------------------- TenexiumValidator.cleanup
\* main(), validator.py:295-300: the validator thread leaves run_validator
\* (KeyboardInterrupt, or an exception run_validator did not handle) and the
\* finally clause calls cleanup().
CallCleanup ==
    /\ pc[Main] = "client"
    /\ pc' = [pc EXCEPT ![Main] = "cleanup"]
    /\ UNCHANGED <<storeVars, call, ret, pollerVars, weightVars>>

\* cleanup(), validator.py:284-285: the poller is stopped first.
CleanupStop ==
    /\ pc[Main] = "cleanup"
    /\ pc' = [pc EXCEPT ![Main] = "stop"]
    /\ call' = [call EXCEPT ![Main] = <<"cleanup", "stop">>]
    /\ UNCHANGED <<storeVars, ret, pollerVars, weightVars>>

\* cleanup(), validator.py:288-289: then the store is closed (close() takes
\* the store's lock, data_store.py:215); cleanup returns and main() exits.
CleanupClose ==
    /\ pc[Main] = "cleanup_close"
    /\ call[Main] = <<"cleanup", "stop">>
    /\ call' = [call EXCEPT ![Main] = <<"close", "want">>]
    /\ UNCHANGED <<storeVars, pc, ret, pollerVars, weightVars>>

CleanupStep ==
    \/ CleanupStop
    \/ StopSignal
    \/ StopJoin
    \/ CleanupClose
    \/ Acquire(Main)
    \/ CloseExec(Main)

\* --------------------------------------------------------------- SpecPoller
\* A caller of start() and stop(), and the threads start() creates. The clock
\* is held still; the table is the one an earlier run left.
InitPoller ==
    /\ InitDefaults
    /\ metrics = StaleTable
    /\ next_id = InitialRows + 1
    /\ pc = [t \in Threads |-> IF t = Main THEN "client" ELSE "unborn"]
    /\ w_in = NoInput
    /\ w_out = NoResult

NextPoller ==
    \/ CallStart
    \/ CallStop
    \/ Start
    \/ StopSignal
    \/ StopJoin
    \/ \E t \in PollerTids : PollerStep(t)
    \/ \E t \in PollerTids : PollerStoreStep(t)

SpecPoller == InitPoller /\ [][NextPoller]_vars

\* -------------------------------------------------------------- SpecCleanup
\* The validator thread starts the poller and, at some point, leaves
\* run_validator, so that main() calls cleanup(); the polling thread goes on
\* until it ends, and finds the store closed when cleanup() got there first.
InitCleanup == InitPoller

NextCleanup ==
    \/ CallStart
    \/ Start
    \/ CallCleanup
    \/ CleanupStep
    \/ \E t \in PollerTids : PollerStep(t)
    \/ \E t \in PollerTids : PollerStoreStep(t)
    \/ \E t \in PollerTids : \E op \in {"insert", "count", "prune"} : RaiseClosed(t, op)

SpecCleanup == InitCleanup /\ [][NextCleanup]_vars



\* ------------------------------------------------- the daily rate estimates
\* metrics_poller.py:213, validator.py:177: hours per day.
HoursPerDay == 24
\* metrics_poller.py:234, validator.py:181: blocks per day.
BlocksPerDay == 7200
\* 0.41, the miners' share of the emission (metrics_poller.py:234).
MinerShare == <<41, 100>>
\* 0.2625 and 0.30625, the providers' shares of the trading and of the
\* borrowing fees (metrics_poller.py:219, validator.py:180).
TradingFeeShare == <<21, 80>>
BorrowingFeeShare == <<49, 160>>

RetRates(daily_lp_reward, miner_daily_emission) ==
    [kind |-> "rates", daily_lp_reward |-> daily_lp_reward,
     miner_daily_emission |-> miner_daily_emission]

\* metrics_poller.py:203-219: the daily LP reward of the interval between two
\* consecutive snapshots (time_diff_hours > 0).
\* (Faulty variant: the two fee shares are exchanged.)
IntervalDailyLpRewardMutant(current, next_point) ==
    LET time_diff_hours == Rat(next_point.timestamp - current.timestamp, HOUR)
        normalization_factor == RDiv(RInt(HoursPerDay), time_diff_hours)
        trading_fees_diff == RSub(next_point.total_trading_fees, current.total_trading_fees)
        borrowing_fees_diff ==
            RSub(next_point.total_borrowing_fees, current.total_borrowing_fees)
    IN  RAdd(RMul(RMul(trading_fees_diff, normalization_factor), BorrowingFeeShare),
             RMul(RMul(borrowing_fees_diff, normalization_factor), TradingFeeShare))

IntervalDailyLpReward(current, next_point) ==
    LET time_diff_hours == Rat(next_point.timestamp - current.timestamp, HOUR)
        normalization_factor == RDiv(RInt(HoursPerDay), time_diff_hours)
        trading_fees_diff == RSub(next_point.total_trading_fees, current.total_trading_fees)
        borrowing_fees_diff ==
            RSub(next_point.total_borrowing_fees, current.total_borrowing_fees)
        daily_trading_fees == RMul(trading_fees_diff, normalization_factor)
        daily_borrowing_fees == RMul(borrowing_fees_diff, normalization_factor)
    IN  RAdd(RMul(daily_trading_fees, TradingFeeShare),
             RMul(daily_borrowing_fees, BorrowingFeeShare))

\* metrics_poller.py:196-220: the rewards of the intervals of positive length.
RECURSIVE DailyLpRewards(_)
DailyLpRewards(all_data) ==
    IF Len(all_data) < 2 THEN <<>>
    ELSE LET rest == DailyLpRewards(Tail(all_data))
         IN  IF all_data[2].timestamp - all_data[1].timestamp <= 0 THEN rest
             ELSE <<IntervalDailyLpReward(all_data[1], all_data[2])>> \o rest

\* metrics_poller.py:179-244: what get_24h_calculations makes of all_data.
CalculationsFrom(all_data) ==
    IF Len(all_data) < 2 THEN RetNone
    ELSE LET daily_lp_rewards == DailyLpRewards(all_data)
         IN  IF daily_lp_rewards = <<>> THEN RetNone
             ELSE LET avg_daily_lp_reward ==
                          RDiv(RSum(daily_lp_rewards), RInt(Len(daily_lp_rewards)))
                      avg_subnet_price ==
                          RDiv(RSum([i \in 1 .. Len(all_data) |-> all_data[i].subnet_price]),
                               RInt(Len(all_data)))
                  IN  RetRates(avg_daily_lp_reward,
                               RMul(RMul(avg_subnet_price, RInt(BlocksPerDay)), MinerShare))

\* validator.py:164-195: daily_lp_reward and miner_daily_emission, from the
\* calculations or, without them, from get_24h_data() and the spot price.
DailyRates(calculations, data, spot_price) ==
    LET spot == RetRates(RInt(0), RMul(RMul(spot_price, RInt(BlocksPerDay)), MinerShare))
    IN  IF calculations.kind = "rates" THEN calculations
        ELSE IF data.kind # "pair" THEN spot
        ELSE IF data.newest.timestamp - data.oldest.timestamp <= 0 THEN spot
        ELSE
        LET oldest == data.oldest
            newest == data.newest
            time_span_hours == Rat(newest.timestamp - oldest.timestamp, HOUR)
            normalization_factor == RDiv(RInt(HoursPerDay), time_span_hours)
            trading_fees_diff == RSub(newest.total_trading_fees, oldest.total_trading_fees)
            borrowing_fees_diff ==
                RSub(newest.total_borrowing_fees, oldest.total_borrowing_fees)
        IN  RetRates(RMul(RAdd(RMul(trading_fees_diff, TradingFeeShare),
                               RMul(borrowing_fees_diff, BorrowingFeeShare)),
                          normalization_factor),
                     RMul(RMul(RDiv(RAdd(oldest.subnet_price, newest.subnet_price), RInt(2)),
                               RInt(BlocksPerDay)),
                          MinerShare))

\* The snapshots a rate derivation may be handed: polled at the start of the
\* model or two hours later.
SnapshotInputs ==
    { [timestamp |-> ts, eth_block_number |-> 100, total_trading_fees |-> tf,
       total_borrowing_fees |-> bf, subnet_price |-> sp, total_liquidity |-> RInt(100)] :
        ts \in {InitialClock, InitialClock + 2 * HOUR},
        tf \in {RInt(0), RInt(10)}, bf \in {RInt(0), RInt(4)},
        sp \in {RInt(1), RInt(3)} }

RECURSIVE SeqsUpTo(_, _)
SeqsUpTo(S, n) ==
    IF n = 0 THEN {<<>>}
    ELSE LET shorter == SeqsUpTo(S, n - 1)
         IN  shorter \cup {Append(q, x) : q \in shorter, x \in S}

RateInputs ==
    { [kind |-> "snapshots", all_data |-> q, spot_price |-> RInt(1)] :
        q \in SeqsUpTo(SnapshotInputs, MaxPoints) }

\* The rate arithmetic applied to a sequence of snapshots: lines 179-244 of
\* get_24h_calculations to the whole sequence, and the validator's estimate
\* without calculations (validator.py:171-188) to its first and last snapshot.
ComputeRates ==
    /\ w_in.kind = "snapshots"
    /\ w_out.status = "none"
    /\ LET all_data == w_in.all_data
           data == IF all_data = <<>> THEN RetNone
                   ELSE RetPair(all_data[1], all_data[Len(all_data)])
       IN  w_out' = [status |-> "ok",
                     calculations |-> CalculationsFrom(all_data),
                     estimate |-> DailyRates(RetNone, data, w_in.spot_price),
                     rates |-> DailyRates(CalculationsFrom(all_data), data,
                                          w_in.spot_price)]
    /\ UNCHANGED <<storeVars, threadVars, pollerVars, w_in, loopVars>>

\* ---------------------------------------------------------------- SpecRates
InitRates ==
    /\ InitDefaults
    /\ metrics = <<>>
    /\ next_id = InitialRows + 1
    /\ pc = [t \in Threads |-> IF t = Main THEN "client" ELSE "unborn"]
    /\ w_in \in RateInputs
    /\ w_out = NoResult

NextRates == ComputeRates

SpecRates == InitRates /\ [][NextRates]_vars

\* ------------------------------------------------- the weight computation
\* validator.py:143.
U16_MAX == 65535

\* (1 + miner_apy) ** (1 / 365) - 1 with miner_apy = 1 (validator.py:201,
\* 205): 2 ** (1/365) - 1 = 0.0019008..., here the rational 19/10000.
DailyGrowthRate == <<19, 10000>>

\* validator.py:267: the shares of the lifetime, the trailing 7-day and the
\* current-day liquidation value in a provider's score.
TotalShare == <<1, 5>>
WeeklyShare == <<3, 10>>
DailyShare == <<1, 2>>

Uids == 0 .. MaxUid

\* What the contract holds for one liquidity provider: its balance in TAO
\* (liquidityProviders(p)[0] / 10**18, validator.py:235), its lifetime
\* liquidation value, and its daily liquidation values of the days
\* current_day - 7 .. current_day (validator.py:260-265).
ProviderProfiles ==
    { [balance |-> RInt(4000), total |-> 0, daily |-> <<0, 0, 0, 0, 0, 0, 0, 0>>],
      [balance |-> RInt(6000), total |-> 10, daily |-> <<0, 0, 0, 0, 0, 2, 0, 4>>],
      [balance |-> RInt(0), total |-> 0, daily |-> <<0, 0, 0, 0, 0, 0, 0, 0>>] }

\* groupLiquidityProviders of one hotkey: none, one or two providers.
ProviderLists ==
    {<<>>} \cup {<<p>> : p \in ProviderProfiles}
           \cup {<<p, q>> : p \in ProviderProfiles, q \in ProviderProfiles}

\* daily_lp_reward and miner_daily_emission as validator.py:160-195 hands them
\* to the computation.
RewardValues == {RInt(0), RInt(10), RInt(38)}
EmissionValues == {RInt(0), RInt(19), RInt(38)}

\* The balances of all the providers listed under the hotkeys.
RECURSIVE ListedBalance(_, _)
ListedBalance(providers, uid) ==
    IF uid > MaxUid THEN RInt(0)
    ELSE RAdd(RSum([i \in 1 .. Len(providers[uid]) |-> providers[uid][i].balance]),
              ListedBalance(providers, uid + 1))

\* The inputs of one weight computation in which every chain read answers.
\* totalLpStakes() is the listed providers' balance plus the balance of
\* providers under no metagraph hotkey. failing_read is the uid whose
\* provider reads fail, 0 for none.
AnsweredInputs ==
    { [kind |-> "input",
       daily_lp_reward |-> r,
       miner_daily_emission |-> m,
       total_liquidity |-> RAdd(ListedBalance(ps, 1), other),
       max_liquidity_providers_per_hotkey |-> mx,
       providers |-> ps,
       failing_read |-> 0] :
        r \in RewardValues, m \in EmissionValues,
        other \in {RInt(0), RInt(10000)}, mx \in {1, 2},
        ps \in [1 .. MaxUid -> ProviderLists] }

\* Computations in which the contract call that reads the providers of one
\* hotkey (liquidityProviderSetLength(hotkey).call(), validator.py:225)
\* fails: web3 raises for a node that does not answer or a call that reverts.
\* The other inputs are those of an ordinary cycle (no LP reward yet, a
\* positive emission and liquidity).
FailingReadInputs ==
    { [in EXCEPT !.failing_read = uid] :
        in \in {a \in AnsweredInputs :
                    /\ a.daily_lp_reward = RInt(0)
                    /\ a.miner_daily_emission = RInt(19)
                    /\ a.max_liquidity_providers_per_hotkey = 2
                    /\ a.total_liquidity = RAdd(ListedBalance(a.providers, 1), RInt(10000))},
        uid \in 1 .. MaxUid }

WeightInputs == AnsweredInputs \cup FailingReadInputs

Min(a, b) == IF a <= b THEN a ELSE b

\* validator.py:200-208: lp_emission_percentage; "raised" stands for the
\* ZeroDivisionError of a division by miner_daily_emission = 0.0.
LpEmissionPercentage(total_liquidity, daily_lp_reward, miner_daily_emission) ==
    IF RLt(RInt(0), RAdd(miner_daily_emission, daily_lp_reward))
    THEN IF RIsZero(miner_daily_emission) THEN "raised"
         ELSE RMin(RInt(1),
                   RDiv(RSub(RMul(total_liquidity, DailyGrowthRate), daily_lp_reward),
                        miner_daily_emission))
    ELSE RInt(0)

\* validator.py:229-230: the providers of a hotkey the loops visit.
Visited(in, uid) ==
    SubSeq(in.providers[uid], 1,
           Min(Len(in.providers[uid]), in.max_liquidity_providers_per_hotkey))

\* validator.py:218-239: the liquidity share of uid (uid 0 is skipped).
LpWeight(in, lp, uid) ==
    IF uid = 0 THEN RInt(0)
    ELSE LET v == Visited(in, uid)
         IN  RSum([i \in 1 .. Len(v) |->
                      RDiv(RMul(lp, v[i].balance), in.total_liquidity)])

\* validator.py:260-267: the liquidation score of one provider.
RECURSIVE SumInts(_)
SumInts(seq) == IF seq = <<>> THEN 0 ELSE seq[1] + SumInts(Tail(seq))

ProviderScore(p) ==
    LET weekly == SumInts(SubSeq(p.daily, 1, 7))
        daily == p.daily[8]
    IN  RAdd(RAdd(RMul(RInt(p.total), TotalShare), RMul(RInt(weekly), WeeklyShare)),
             RMul(RInt(daily), DailyShare))

\* validator.py:241-269: liq_weights[uid].
LiqWeight(in, uid) ==
    IF uid = 0 THEN RInt(0)
    ELSE LET v == Visited(in, uid)
         IN  RSum([i \in 1 .. Len(v) |-> ProviderScore(v[i])])

\* validator.py:271-272: with no liquidation score anywhere the liquidator
\* share goes to uid 0.
\* (Faulty variant: the share is left unassigned.)
SentinelFallbackMutant(liq, lpw) == lpw

SentinelFallback(liq, lpw) == [uid \in Uids |-> IF uid = 0 THEN liq ELSE lpw[uid]]

\* validator.py:218-239: the contract calls of the loops are not inside any
\* try block, so a call that raises leaves get_unnormalized_weights. The read
\* for uid comes after the hotkeys before it were visited, where a division
\* by total_liquidity = 0.0 raises first.
ReadRaises(in) ==
    /\ in.failing_read # 0
    /\ ~(RIsZero(in.total_liquidity)
           /\ \E uid \in 1 .. (in.failing_read - 1) : Visited(in, uid) # <<>>)

\* get_unnormalized_weights, validator.py:197-277, given the daily rates.
\* A division by total_liquidity = 0.0 at line 239 raises as soon as a
\* provider is visited.
GetUnnormalizedWeights(in) ==
    LET lp == LpEmissionPercentage(in.total_liquidity, in.daily_lp_reward,
                                   in.miner_daily_emission)
    IN  IF lp = "raised"
        THEN [status |-> "raised", at |-> "lp_emission_percentage"]
        ELSE IF ReadRaises(in)
        THEN [status |-> "raised", at |-> "chain_read"]
        ELSE IF RIsZero(in.total_liquidity)
                /\ \E uid \in 1 .. MaxUid : Visited(in, uid) # <<>>
        THEN [status |-> "raised", at |-> "liquidity_share"]
        ELSE
        LET liq == RSub(RInt(1), lp)
            lpw == [uid \in Uids |-> LpWeight(in, lp, uid)]
            lqw == [uid \in Uids |-> LiqWeight(in, uid)]
            total_liq_weights == RSum([i \in 1 .. MaxUid |-> lqw[i]])
            weights ==
                IF RLe(total_liq_weights, RInt(0))
                THEN SentinelFallback(liq, lpw)
                ELSE [uid \in Uids |->
                        RAdd(lpw[uid], RDiv(RMul(liq, lqw[uid]), total_liq_weights))]
        IN  [status |-> "ok",
             lp_emission_percentage |-> lp,
             liquidator_emission_percentage |-> liq,
             total_liq_weights |-> total_liq_weights,
             weights |-> weights]

\* validator.py:146-150: a raw vector that sums to 0 gives U16_MAX to uid 0.
\* (Faulty variant: the vector of zeros is left as it is.)
ZeroTotalWeightsMutant == [uid \in Uids |-> RInt(0)]

ZeroTotalWeights == [uid \in Uids |-> IF uid = 0 THEN RInt(U16_MAX) ELSE RInt(0)]

\* prepare_weights, validator.py:143-154: the weights scaled to U16_MAX by a
\* float division (the entries are not rounded).
PrepareWeights(in) ==
    LET u == GetUnnormalizedWeights(in)
    IN  IF u.status # "ok" THEN u
        ELSE LET total_weight == RSum([i \in 1 .. MaxUid + 1 |-> u.weights[i - 1]])
                 uint_weights ==
                     IF RIsZero(total_weight)
                     THEN ZeroTotalWeights
                     ELSE [uid \in Uids |->
                             RDiv(RMul(u.weights[uid], RInt(U16_MAX)), total_weight)]
             IN  [status |-> "ok",
                  lp_emission_percentage |-> u.lp_emission_percentage,
                  liquidator_emission_percentage |-> u.liquidator_emission_percentage,
                  total_liq_weights |-> u.total_liq_weights,
                  weights |-> u.weights,
                  total_weight |-> total_weight,
                  uint_weights |-> uint_weights]

\* One weight cycle: set_weights() calls prepare_weights() (validator.py:124).
\* The arithmetic of validator.py:197-277 and 143-154 is applied to daily
\* rates that are given; the call that is to supply them (validator.py:162)
\* is Get24hCalculationsCall.
ComputeWeights ==
    /\ w_in.kind = "input"
    /\ w_out.status = "none"
    /\ w_out' = PrepareWeights(w_in)
    /\ UNCHANGED <<storeVars, threadVars, pollerVars, w_in, loopVars>>

\* -------------------------------------------------------------- SpecWeights
InitWeights ==
    /\ InitDefaults
    /\ metrics = <<>>
    /\ next_id = InitialRows + 1
    /\ pc = [t \in Threads |-> IF t = Main THEN "client" ELSE "unborn"]
    /\ w_in \in WeightInputs
    /\ w_out = NoResult

NextWeights == ComputeWeights

SpecWeights == InitWeights /\ [][NextWeights]_vars

\* ------------------------------------------- TenexiumValidator.run_validator
\* utils.py:90: WEIGHT_UPDATE_INTERVAL_BLOCKS, by default 100.
weight_update_interval_blocks == 100

\* The chain grows by one block or by one block less than the interval;
\* MaxBlockSteps bounds how often it grows.
BlockSteps ==
    (block \div (weight_update_interval_blocks - 1))
        + (block % (weight_update_interval_blocks - 1))

BlockTick ==
    /\ BlockSteps < MaxBlockSteps
    /\ \E d \in {1, weight_update_interval_blocks - 1} : block' = block + d
    /\ UNCHANGED <<storeVars, threadVars, pollerVars, w_in, w_out, current_block,
                   last_weight_update_block, submitted>>

\* run_validator, validator.py:61-77: the poller is started (start() of a
\* poller that is not running, metrics_poller.py:57-67) and its status is
\* logged.
RunValidatorStart ==
    /\ pc[Main] = "run"
    /\ ~AlreadyRunning
    /\ stop_event' = FALSE
    /\ running' = TRUE
    /\ polling_thread' = NewThread
    /\ pc' = [pc EXCEPT ![Main] = "first_update", ![NewThread] = "connect"]
    /\ ret' = RetStatus("started")
    /\ UNCHANGED <<storeVars, call, subtensor, signalled, weightVars>>

\* What set_weights() can hand to update_weights (validator.py:104): a true
\* result, a false result, or an exception (of prepare_weights, or of
\* subtensor.set_weights). update_weights is modelled for each of them; with
\* the store as it is, prepare_weights raises in every cycle (see
\* GetUnnormalizedWeightsRates).
SetWeightsOutcomes ==
    {RetStatus("weights_set"), RetStatus("weights_failed"), RetRaised("Exception")}

\* update_weights, validator.py:105-106: last_weight_update_block after the
\* cycle.
LastWeightUpdateBlock(outcome, at_block) ==
    IF outcome = RetStatus("weights_set") THEN at_block ELSE last_weight_update_block

\* Where run_validator continues after update_weights. The call of line 79 is
\* outside the try block of lines 82-94: what update_weights re-raises (line
\* 113) leaves run_validator, and main() cleans up and exits
\* (validator.py:295-300). Inside the loop it is caught at line 93, which
\* skips the sleep of line 88.
AfterUpdateWeights(site, outcome) ==
    IF outcome.kind = "raised"
    THEN (IF site = "first_update" THEN "cleanup" ELSE "caught")
    ELSE (IF site = "first_update" THEN "loop" ELSE "sleep")

\* validator.py:79: self.update_weights(self.subtensor.get_current_block()).
FirstUpdateWeights ==
    /\ pc[Main] = "first_update"
    /\ current_block' = block
    /\ \E outcome \in SetWeightsOutcomes :
          /\ last_weight_update_block' = LastWeightUpdateBlock(outcome, block)
          /\ ret' = outcome
          /\ pc' = [pc EXCEPT ![Main] = AfterUpdateWeights("first_update", outcome)]
    /\ UNCHANGED <<storeVars, call, pollerVars, w_in, w_out, block, submitted>>

\* should_update_weights, validator.py:96-99.
\* (Faulty variant: any later block is enough.)
ShouldUpdateWeightsMutant(at_block) == at_block - last_weight_update_block > 0

ShouldUpdateWeights(at_block) ==
    (at_block - last_weight_update_block) >= weight_update_interval_blocks

\* validator.py:83-85: the head of an iteration reads the block height (the
\* read may raise) and tests whether an update is due.
LoopHead ==
    /\ pc[Main] = "loop"
    /\ \/ /\ current_block' = block
          /\ pc' = [pc EXCEPT ![Main] =
                        IF ShouldUpdateWeights(block) THEN "update" ELSE "sleep"]
          /\ ret' = RetInt(block)
       \/ /\ pc' = [pc EXCEPT ![Main] = "caught"]
          /\ ret' = RetRaised("Exception")
          /\ UNCHANGED current_block
    /\ UNCHANGED <<storeVars, call, pollerVars, w_in, w_out, block,
                   last_weight_update_block, submitted>>

\* validator.py:86-87: the metagraph is read again and update_weights is
\* called with the block height read at the head of the iteration.
LoopUpdateWeights ==
    /\ pc[Main] = "update"
    /\ \E outcome \in SetWeightsOutcomes :
          /\ last_weight_update_block' = LastWeightUpdateBlock(outcome, current_block)
          /\ submitted' = IF outcome = RetStatus("weights_set")
                          THEN Append(submitted, current_block) ELSE submitted
          /\ ret' = outcome
          /\ pc' = [pc EXCEPT ![Main] = AfterUpdateWeights("update", outcome)]
    /\ UNCHANGED <<storeVars, call, pollerVars, w_in, w_out, block, current_block>>

\* validator.py:88: time.sleep(60) ends the iteration; validator.py:93-94:
\* so does the handler, after logging.
NextIteration ==
    /\ pc[Main] \in {"sleep", "caught"}
    /\ pc' = [pc EXCEPT ![Main] = "loop"]
    /\ UNCHANGED <<storeVars, call, ret, pollerVars, weightVars>>

\* KeyboardInterrupt: inside the loop it is caught at line 90 and ends the
\* loop, before it main() catches it (validator.py:297); either way the
\* finally clause of main() calls cleanup().
Interrupt ==
    /\ pc[Main] \in {"run", "first_update", "loop", "update", "sleep", "caught"}
    /\ pc' = [pc EXCEPT ![Main] = "cleanup"]
    /\ ret' = RetRaised("KeyboardInterrupt")
    /\ UNCHANGED <<storeVars, call, pollerVars, weightVars>>

\* ------------------------------------------------------------ SpecValidator
\* The validator thread from the call of run_validator to the end of
\* cleanup(). __init__ has read the block height into
\* last_weight_update_block (validator.py:23); the polling thread start()
\* creates takes no step here (its steps are those of SpecPoller).
InitValidator ==
    /\ InitDefaults
    /\ metrics \in InitialTables
    /\ next_id = InitialRows + 1
    /\ pc = [t \in Threads |-> IF t = Main THEN "run" ELSE "unborn"]
    /\ w_in = NoInput
    /\ w_out = NoResult

NextValidator ==
    \/ BlockTick
    \/ RunValidatorStart
    \/ FirstUpdateWeights
    \/ LoopHead
    \/ LoopUpdateWeights
    \/ NextIteration
    \/ Interrupt
    \/ CleanupStep

SpecValidator == InitValidator /\ [][NextValidator]_vars

\* ------------------------------------------------------ claims: the store
\* The step of thread t that executes prune_old_data's DELETE.
PruneExecStep(t) ==
    call[t] = <<"prune", "exec">> /\ call'[t] = <<"prune", "commit">>

InTable(r, rows) == \E i \in 1 .. Len(rows) : rows[i] = r

\* C1: a prune at clock reading now leaves exactly the rows with
\* timestamp >= now - 24h: every row left satisfies the bound, every row that
\* satisfied it is still there, and no row is added.
C1_PruneRemovesExactlyOld ==
    [][\A t \in Threads : PruneExecStep(t) =>
          /\ \A i \in 1 .. Len(metrics') : metrics'[i].timestamp >= clock - DAY
          /\ \A i \in 1 .. Len(metrics) :
                metrics[i].timestamp >= clock - DAY => InTable(metrics[i], metrics')
          /\ \A i \in 1 .. Len(metrics') : InTable(metrics'[i], metrics)
          /\ Len(metrics') <= Len(metrics)]_vars

\* C1 witness: a prune has just removed a row and kept one stamped exactly
\* now - 24h.
C1_Witness ==
    \E t \in Threads :
        /\ call[t] = <<"prune", "commit">>
        /\ deleted_count > 0
        /\ \E i \in 1 .. Len(metrics) : metrics[i].timestamp = prune_time - DAY

\* C2 as stated: a prune whose preceding committed write was a prune (no
\* insert in between) removes nothing and leaves the table as it was.
C2_PruneTwiceRemovesNothing ==
    [][\A t \in Threads :
          (PruneExecStep(t) /\ last_write[1] = "prune") =>
              (deleted_count' = 0 /\ metrics' = metrics)]_vars

\* C2 amended: a prune whose preceding committed write was a prune executed
\* at the same clock reading removes nothing and leaves the table as it was.
C2_PruneTwiceSameClock ==
    [][\A t \in Threads :
          (PruneExecStep(t) /\ last_write = <<"prune", clock>>) =>
              (deleted_count' = 0 /\ metrics' = metrics)]_vars

\* C2 witness: a second prune has executed at the clock reading of the prune
\* committed before it, on a table that still holds rows.
C2_Witness ==
    \E t \in Threads :
        /\ call[t] = <<"prune", "commit">>
        /\ last_write = <<"prune", prune_time>>
        /\ deleted_count = 0
        /\ metrics # <<>>

\* The threads inside the store's critical section.
InCritical == {t \in Threads : call[t][2] \in {"exec", "commit"}}

\* C3: at most one thread is inside a store method's critical section, it is
\* the holder of the lock, and a method never starts executing while another
\* call's statement is uncommitted.
C3_MutualExclusion ==
    /\ Cardinality(InCritical) <= 1
    /\ \A t \in InCritical : lock = t
    /\ \A t \in Threads : call[t][2] = "exec" => ~in_txn

\* C3 witness: a thread holds an uncommitted write while the other thread
\* waits for the lock.
C3_Witness ==
    \E t, u \in Threads :
        /\ t # u
        /\ call[t][2] = "commit"
        /\ in_txn
        /\ call[u][2] = "want"

\* ----------------------------------------------------- claims: the poller
\* The polling threads that are alive and not on their way out of the loop.
PollingThreads ==
    {t \in PollerTids :
        pc[t] \in {"connect", "poll0", "check", "wait", "waiting", "poll",
                   "count", "prune", "backoff"}}

\* C4 as stated: after any sequence of start() and stop() calls at most one
\* polling thread is alive and polling.
C4_OnePollingThread == Cardinality(PollingThreads) <= 1

\* C5: a start() that finds the poller running returns without creating a
\* thread and leaves running, polling_thread, the stop event and every
\* polling thread as they were.
C5_SecondStartIsNoop ==
    [][(pc[Main] = "start" /\ pc'[Main] # "start" /\ running) =>
          /\ running' = running
          /\ polling_thread' = polling_thread
          /\ stop_event' = stop_event
          /\ \A t \in PollerTids : pc'[t] = pc[t]
          /\ ret' = RetStatus("already_running")]_vars

\* C5 witness: start() has returned from a running poller whose thread is
\* alive.
C5_Witness ==
    /\ pc[Main] = "client"
    /\ ret = RetStatus("already_running")
    /\ running
    /\ Alive(polling_thread)

\* C6: stop() on a running poller sets the stop event and goes on to join the
\* thread; when the join returns, stop() returns with running = False, whether
\* or not the thread has ended.
C6_StopMarksStopped ==
    [][/\ (pc[Main] = "stop" /\ pc'[Main] # "stop" /\ running) =>
              (stop_event' /\ pc'[Main] = "join")
       /\ (pc[Main] = "join" /\ pc'[Main] # "join") =>
              (/\ ~running'
               /\ pc'[Main] \in {"client", "cleanup_close"}
               /\ ret' = RetStatus("stopped"))]_vars

\* C6 witness: stop() has returned, the poller is marked stopped, and the
\* thread it joined is still alive (the join timed out).
C6_Witness ==
    /\ pc[Main] = "client"
    /\ ret = RetStatus("stopped")
    /\ ~running
    /\ polling_thread # NoThread
    /\ Alive(polling_thread)

\* C7 as stated: a polling thread that was alive when the stop event was set
\* leaves its loop without starting another poll.
C7_NoPollAfterStopSignal ==
    [][\A t \in PollerTids :
          t \in signalled => ~(pc[t] # "poll" /\ pc'[t] = "poll")]_vars

\* C8 as stated: a poll that raises, the initial poll included, never ends
\* the polling thread: the loop's handler takes it (log, back off, go on).
C8_PollErrorNeverEndsThread ==
    [][\A t \in PollerTids :
          (pc[t] \in {"poll0", "poll"} /\ pc'[t] # pc[t] /\ call[t] = NoCall
              /\ call'[t] = NoCall /\ subtensor # None)
          => pc'[t] = "backoff"]_vars

\* ---------------------------------------------------- claims: the weights
Clamp01(x) == IF RLt(x, RInt(0)) THEN RInt(0) ELSE RMin(RInt(1), x)

\* C9 as stated: every entry of the vector prepare_weights() returns is an
\* integer in [0, 65535], and the entries sum to 65535 within one unit per
\* participant.
C9_WeightsWellFormed ==
    w_out.status = "ok" =>
        /\ \A uid \in Uids :
              /\ RIsInt(w_out.uint_weights[uid])
              /\ RLe(RInt(0), w_out.uint_weights[uid])
              /\ RLe(w_out.uint_weights[uid], RInt(U16_MAX))
        /\ LET sum == RSum([i \in 1 .. MaxUid + 1 |-> w_out.uint_weights[i - 1]])
           IN  /\ RLe(RInt(U16_MAX - (MaxUid + 1)), sum)
               /\ RLe(sum, RInt(U16_MAX + MaxUid + 1))

\* C10 as stated: the computation gives lp_emission_percentage =
\* clamp01((daily_growth_target - daily_lp_reward) / miner_daily_emission) when
\* miner_daily_emission + daily_lp_reward > 0 and 0 otherwise, so that it and
\* liquidator_emission_percentage lie in [0, 1].
C10_LpPercentageClamped ==
    w_out.status # "none" =>
        LET r == w_in.daily_lp_reward
            m == w_in.miner_daily_emission
            target == RMul(w_in.total_liquidity, DailyGrowthRate)
            lp == LpEmissionPercentage(w_in.total_liquidity, r, m)
        IN  /\ lp # "raised"
            /\ IF RLt(RInt(0), RAdd(m, r))
               THEN ~RIsZero(m) /\ lp = Clamp01(RDiv(RSub(target, r), m))
               ELSE lp = RInt(0)
            /\ RLe(RInt(0), lp) /\ RLe(lp, RInt(1))
            /\ RLe(RInt(0), RSub(RInt(1), lp)) /\ RLe(RSub(RInt(1), lp), RInt(1))

\* ------------------------------------------- claims: the store's queries
\* The step in which thread t's call of method op returns.
ReturnStep(t, op) == call[t][1] = op /\ call'[t] = NoCall /\ connection = "open"

Timestamps(rows) == {rows[i].timestamp : i \in 1 .. Len(rows)}

\* C15 as stated: with fewer than 2 snapshots in the store, or with exactly 2
\* of equal timestamps, get_24h_calculations() returns None and does not
\* raise.
C15_FewSnapshotsGiveNone ==
    [][(Get24hCalculationsCall(Main)
          /\ (Len(metrics) < 2
                \/ (Len(metrics) = 2 /\ Cardinality(Timestamps(metrics)) = 1)))
        => ret' = RetNone]_vars

\* C17: get_24h_data() at clock reading now returns None exactly when no row
\* has timestamp >= now - 24h; otherwise it returns a row of the least
\* timestamp among those rows and a row of the greatest timestamp of the whole
\* table, and the first is not later than the second.
C17_Get24hData ==
    [][\A t \in Threads : ReturnStep(t, "get24h") =>
          LET window == {ts \in Timestamps(metrics) : ts >= clock - DAY}
          IN  /\ (ret'.kind = "none") <=> (window = {})
              /\ window # {} =>
                    /\ ret'.kind = "pair"
                    /\ \E i \in 1 .. Len(metrics) : Snapshot(metrics[i]) = ret'.oldest
                    /\ \E i \in 1 .. Len(metrics) : Snapshot(metrics[i]) = ret'.newest
                    /\ ret'.oldest.timestamp \in window
                    /\ \A ts \in window : ret'.oldest.timestamp <= ts
                    /\ \A ts \in Timestamps(metrics) : ts <= ret'.newest.timestamp
                    /\ ret'.oldest.timestamp <= ret'.newest.timestamp]_vars

\* C17 witness: get_24h_data() has returned two rows of different timestamps
\* while the table also holds a row older than the window.
C17_Witness ==
    /\ ret.kind = "pair"
    /\ ret.oldest.timestamp < ret.newest.timestamp
    /\ \E ts \in Timestamps(metrics) : ts < ret.oldest.timestamp

\* C18 as stated: the store offers the query get_24h_calculations() calls,
\* so the call of it does not fail for want of the method.
C18_StoreOffersAllWithin24h ==
    [][Get24hCalculationsCall(Main) => ret' # RetRaised("AttributeError")]_vars

\* The greatest and the least of a non-empty set of integers.
MaxOf(S) == CHOOSE x \in S : \A y \in S : y <= x
MinOf(S) == CHOOSE x \in S : \A y \in S : x <= y

\* C19: get_data_age_hours() returns 0 on an empty table, and otherwise the
\* greatest timestamp minus the least, over 3600 (1.0 for two timestamps an
\* hour apart).
C19_DataAgeHours ==
    [][\A t \in Threads : ReturnStep(t, "age") =>
          /\ ret'.kind = "float"
          /\ metrics = <<>> => ret'.val = <<0, 1>>
          /\ metrics # <<>> =>
                LET span == MaxOf(Timestamps(metrics)) - MinOf(Timestamps(metrics))
                IN  /\ ret'.val[1] * HOUR = span * ret'.val[2]
                    /\ span = HOUR => ret'.val = <<1, 1>>]_vars

\* C19 witness: the call has returned 1.0 for a table whose timestamps span
\* one hour.
C19_Witness ==
    /\ ret = RetFloat(<<1, 1>>)
    /\ metrics # <<>>
    /\ MaxOf(Timestamps(metrics)) - MinOf(Timestamps(metrics)) = HOUR

\* C20 as stated: prune_old_data() hands its caller the number of rows it
\* removed.
C20_PruneReportsCount ==
    [][\A t \in Threads :
          (call[t] = <<"prune", "commit">> /\ call'[t] = NoCall)
          => ret' = RetInt(deleted_count)]_vars

\* --------------------------------------- claims: the degenerate aggregates
\* C11 as stated: no weight computation ends in a division by zero; with
\* zero total liquidity, zero miner_daily_emission, zero total liquidation
\* score or zero total raw weight it returns a vector.
C11_NoDivisionByZero ==
    (w_out.status # "none" /\ w_in.failing_read = 0) => w_out.status = "ok"

\* The parts of uid's raw weight, stated from the inputs: the share of the
\* balances of the providers visited under uid, and the liquidation score of
\* those providers.
VisitedCount(uid) ==
    IF Len(w_in.providers[uid]) <= w_in.max_liquidity_providers_per_hotkey
    THEN Len(w_in.providers[uid])
    ELSE w_in.max_liquidity_providers_per_hotkey

BalanceOf(uid) ==
    IF uid = 0 THEN RInt(0)
    ELSE RSum([i \in 1 .. VisitedCount(uid) |-> w_in.providers[uid][i].balance])

ScoreOf(uid) ==
    IF uid = 0 THEN RInt(0)
    ELSE RSum([i \in 1 .. VisitedCount(uid) |->
                 LET p == w_in.providers[uid][i]
                     week == p.daily[1] + p.daily[2] + p.daily[3] + p.daily[4]
                             + p.daily[5] + p.daily[6] + p.daily[7]
                 IN  Rat(2 * p.total + 3 * week + 5 * p.daily[8], 10)])

TotalScore == RSum([i \in 1 .. MaxUid |-> ScoreOf(i)])

\* The liquidator share of uid: its raw weight less its liquidity share.
LiquidatorShare(uid) ==
    IF RIsZero(BalanceOf(uid)) THEN w_out.weights[uid]
    ELSE RSub(w_out.weights[uid],
              RDiv(RMul(w_out.lp_emission_percentage, BalanceOf(uid)),
                   w_in.total_liquidity))

\* C12: with a total liquidation score <= 0 uid 0 holds the whole
\* liquidator_emission_percentage and no other uid any liquidator share; with
\* a total > 0 uid 0 holds nothing and every uid holds
\* liquidator_emission_percentage * score(uid) / total.
C12_LiquidatorFallback ==
    w_out.status = "ok" =>
        IF RLe(TotalScore, RInt(0))
        THEN /\ w_out.weights[0] = w_out.liquidator_emission_percentage
             /\ \A uid \in Uids \ {0} : RIsZero(LiquidatorShare(uid))
        ELSE /\ RIsZero(w_out.weights[0])
             /\ \A uid \in Uids \ {0} :
                   RMul(LiquidatorShare(uid), TotalScore)
                     = RMul(w_out.liquidator_emission_percentage, ScoreOf(uid))

\* C12 witness: a computation with no liquidation score gave uid 0 a positive
\* liquidator share while a provider holds a liquidity share.
C12_Witness ==
    /\ w_out.status = "ok"
    /\ RIsZero(TotalScore)
    /\ RLt(RInt(0), w_out.weights[0])
    /\ \E uid \in Uids \ {0} : RLt(RInt(0), w_out.weights[uid])

\* C13: a raw vector that sums to 0 ends as 65535 for uid 0 and 0 for every
\* other uid.
C13_ZeroSumGivesSentinel ==
    (w_out.status = "ok"
        /\ RIsZero(RSum([i \in 1 .. MaxUid + 1 |-> w_out.weights[i - 1]])))
    => /\ w_out.uint_weights[0] = <<65535, 1>>
       /\ \A uid \in Uids \ {0} : w_out.uint_weights[uid] = <<0, 1>>

\* C13 witness: prepare_weights() has returned for a raw vector of zeros.
C13_Witness ==
    /\ w_out.status = "ok"
    /\ \A uid \in Uids : RIsZero(w_out.weights[uid])

\* round(x) for x >= 0.
Round(x) == (2 * x[1] + x[2]) \div (2 * x[2])

\* C14 as stated: with no liquidity-provider balance anywhere (total liquidity
\* 0) the computation gives the whole liquidator share to uid 0, and when the
\* liquidation scores total zero as well the final weight of uid 0 is
\* round(65535 * liquidator_emission_percentage).
C14_NoLiquidityGoesToSentinel ==
    (w_out.status # "none" /\ RIsZero(w_in.total_liquidity)) =>
        /\ w_out.status = "ok"
        /\ w_out.weights[0] = w_out.liquidator_emission_percentage
        /\ RIsZero(TotalScore) =>
              w_out.uint_weights[0]
                = RInt(Round(RMul(RInt(U16_MAX), w_out.liquidator_emission_percentage)))

\* ------------------------------------------------- claims: the daily rates
\* The inputs of C16: two snapshots 2 hours apart, the trading fees 10 and
\* the borrowing fees 4 higher in the second.
TwoHourExample ==
    /\ w_in.kind = "snapshots"
    /\ Len(w_in.all_data) = 2
    /\ w_in.all_data[2].timestamp - w_in.all_data[1].timestamp = 2 * HOUR
    /\ RSub(w_in.all_data[2].total_trading_fees, w_in.all_data[1].total_trading_fees)
         = <<10, 1>>
    /\ RSub(w_in.all_data[2].total_borrowing_fees, w_in.all_data[1].total_borrowing_fees)
         = <<4, 1>>

\* C16 as stated: for the two-hour example the daily LP reward is 46.5.
C16_TwoHourRewardIs465 ==
    (TwoHourExample /\ w_out.status = "ok") =>
        /\ w_out.calculations.kind = "rates"
        /\ w_out.calculations.daily_lp_reward = <<93, 2>>

\* C16 amended: for the two-hour example the daily LP reward is
\* (10 * 12) * 0.2625 + (4 * 12) * 0.30625 = 46.2, both by the interval
\* arithmetic of get_24h_calculations and by the validator's own estimate.
C16_TwoHourRewardIs462 ==
    (TwoHourExample /\ w_out.status = "ok") =>
        /\ w_out.calculations.kind = "rates"
        /\ w_out.calculations.daily_lp_reward = <<231, 5>>
        /\ w_out.estimate.daily_lp_reward = <<231, 5>>

\* C16 witness: the rates have been derived for the two-hour example.
C16_Witness ==
    TwoHourExample /\ w_out.status = "ok"

\* ------------------------------------------------------------ C21 (SpecStore)
\* C21: the table changes in two ways only. An insert_metric step, taken by
\* the polling thread, adds exactly one row after the rows there were and
\* leaves those as they were; a prune_old_data step leaves some of the rows
\* there were, in their order. Every other step (get_24h_data,
\* get_data_age_hours, get_record_count, close, the clock, the lock) leaves
\* the table as it was.
InsertStep(t) ==
    /\ call[t] = <<"insert", "exec">>
    /\ call'[t] = <<"insert", "commit">>

IsPrefixPlusOne(before, after) ==
    /\ Len(after) = Len(before) + 1
    /\ SubSeq(after, 1, Len(before)) = before

C21_OnlyInsertAddsOnlyPruneDeletes ==
    [][\/ metrics' = metrics
       \/ /\ \E t \in PollerTids : InsertStep(t)
          /\ \A t \in Threads : InsertStep(t) => t \in PollerTids
          /\ IsPrefixPlusOne(metrics, metrics')
       \/ /\ \E t \in Threads : PruneExecStep(t)
          /\ Len(metrics') < Len(metrics)
          /\ \A i \in 1 .. Len(metrics') : InTable(metrics'[i], metrics)]_vars

\* An insert has added a row to a table that held rows, and the validator
\* thread has read the table since.
C21_Witness ==
    /\ Len(metrics) > InitialRows
    /\ SubSeq(metrics, 1, InitialRows) = StaleTable
    /\ ret.kind = "int"
    /\ ret.val = Len(metrics)

\* ------------------------------------------------------------ C22 (SpecStore)
\* The rate data of get_24h_calculations() is absent when fewer than two
\* snapshots of the last 24 hours are in the table.
RateDataAbsent == Len(InWindow(metrics, clock - DAY)) < 2

\* C22 as stated: when the 24h rate data is absent, the weight computation
\* does not fail (it goes on with the fallback estimate of lines 164-188).
C22_AbsentRatesDoNotFail ==
    [][(GetUnnormalizedWeightsRates(Main) /\ RateDataAbsent)
         => ret'.kind # "raised"]_vars

\* ---------------------------------------------------------- C29 (SpecCleanup)
\* C29 as stated: once cleanup() has closed the store, the poller is marked
\* stopped and no polling thread is executing a store method (insert_metric,
\* get_record_count, prune_old_data), whether or not stop()'s join timed out.
C29_NoStoreUseAfterClose ==
    connection = "closed" =>
        /\ ~running
        /\ \A t \in PollerTids : call[t][2] # "exec"

\* ----------------------------------------------------------- C28 (SpecPoller)
\* C28 as stated: whenever the poller is marked running, its polling thread
\* is alive (a thread that ended on its own does not leave the poller marked
\* running, with start() returning at its guard).
C28_RunningMeansAlive == running => Alive(polling_thread)

\* ----------------------------------------------------------- C24 (SpecPoller)
\* The inserts the poller has made since it was started.
InsertsMade == next_id - (InitialRows + 1)

\* C24 as stated: when the polling thread decides, after an insert, whether
\* to prune, it prunes exactly when the number of inserts the poller has made
\* is a multiple of 10, whatever the table held at the start and whatever
\* earlier prunes removed.
C24_PruneOnEveryTenthInsert ==
    [][\A t \in PollerTids :
          (pc[t] = "count" /\ pc'[t] \in {"prune", "check"})
            => (pc'[t] = "prune" <=> InsertsMade % PruneEvery = 0)]_vars

\* ----------------------------------------------------------- C25 (SpecPoller)
\* The places of a polling thread inside the while loop of lines 96-112.
LoopPlaces == {"check", "wait", "waiting", "woken", "poll", "count", "prune", "backoff"}

\* C25: a polling thread comes to its initial poll from the connection setup
\* and enters the loop (and so its first wait) only from the initial poll;
\* it comes to every poll of the loop from a wait that timed out, which is a
\* wait no stop_event.set() ended.
C25_PollFirstThenAfterEachWait ==
    [][\A t \in PollerTids :
          /\ (pc'[t] = "poll0" /\ pc[t] # "poll0") => pc[t] = "connect"
          /\ (pc'[t] \in LoopPlaces /\ pc[t] \notin LoopPlaces) => pc[t] = "poll0"
          /\ (pc'[t] = "poll" /\ pc[t] # "poll") => pc[t] = "waiting"]_vars

\* A thread has made its initial poll, waited, and is in a poll of the loop.
C25_Witness ==
    \E t \in PollerTids : pc[t] = "poll" /\ InsertsMade >= 1

\* ------------------------------------------------------------ C26 (SpecStore)
\* The mean, over the consecutive pairs of all_data with a later second
\* timestamp, of the pair's daily LP reward; RetNone when there is no such
\* pair.
MeanOfValidIntervals(all_data) ==
    LET pairs == 1 .. (Len(all_data) - 1)
        valid == {i \in pairs : all_data[i + 1].timestamp > all_data[i].timestamp}
        rewards == [i \in pairs |->
                      IF i \in valid
                      THEN IntervalDailyLpReward(all_data[i], all_data[i + 1])
                      ELSE RInt(0)]
    IN  IF valid = {} THEN RetNone
        ELSE RetFloat(RDiv(RSum(rewards), RInt(Cardinality(valid))))

\* C26 as stated: get_24h_calculations() returns, as daily_lp_reward, the
\* mean over the valid consecutive pairs of the snapshots of the last 24
\* hours, and None when no pair is valid.
C26_ReturnsMeanOfValidIntervals ==
    [][Get24hCalculationsCall(Main) =>
          LET mean == MeanOfValidIntervals(InWindow(metrics, clock - DAY))
          IN  IF mean = RetNone THEN ret' = RetNone
              ELSE /\ ret'.kind = "rates"
                   /\ ret'.daily_lp_reward = mean.val]_vars

\* ---------------------------------------------------------- C27 (SpecWeights)
\* C27 as stated: a computation in which the provider reads of one hotkey
\* fail gives what it gives when that hotkey has no providers: the failing
\* reads are skipped and count as 0, and the other uids get their weights.
C27_FailingReadIsSkipped ==
    (w_out.status # "none" /\ w_in.failing_read # 0) =>
        w_out = PrepareWeights([w_in EXCEPT !.failing_read = 0,
                                            !.providers[w_in.failing_read] = <<>>])

\* -------------------------------------------------------- C23 (SpecValidator)
\* The end of a weight cycle, at startup or in the loop, that did not submit:
\* set_weights() returned a false result or an exception was raised.
CycleEndsWithoutSubmission ==
    /\ pc[Main] \in {"first_update", "update"}
    /\ pc'[Main] # pc[Main]
    /\ ret' \in {RetStatus("weights_failed"), RetRaised("Exception")}

\* C23 as stated: a cycle that fails or raises leaves
\* last_weight_update_block as it was, the validator goes on to the next
\* iteration of its loop, and an update is still due there.
C23_FailedCycleIsRetried ==
    [][CycleEndsWithoutSubmission =>
          /\ last_weight_update_block' = last_weight_update_block
          /\ pc'[Main] \in {"loop", "sleep", "caught"}
          /\ ShouldUpdateWeights(current_block')]_vars

\* -------------------------------------------------------- C30 (SpecValidator)
\* Of the loop's successful submissions each is at least
\* weight_update_interval_blocks blocks after the one before it, the last of
\* them is the block last_weight_update_block holds, and the loop is in a
\* weight cycle only with a block height at least
\* weight_update_interval_blocks above last_weight_update_block.
SubmissionsSpaced ==
    /\ \A i \in 1 .. (Len(submitted) - 1) :
          submitted[i + 1] - submitted[i] >= weight_update_interval_blocks
    /\ submitted # <<>> => last_weight_update_block = submitted[Len(submitted)]
    /\ pc[Main] = "update" =>
          current_block - last_weight_update_block >= weight_update_interval_blocks

\* C30: after the update at startup the loop goes into a weight cycle only
\* when current_block - last_weight_update_block >=
\* weight_update_interval_blocks, last_weight_update_block never decreases,
\* and two successful submissions of the loop are at least
\* weight_update_interval_blocks blocks apart.
C30_SubmissionsAreSpaced ==
    /\ []SubmissionsSpaced
    /\ [][last_weight_update_block' >= last_weight_update_block]_vars

\* The loop has submitted successfully twice.
C30_Witness == Len(submitted) >= 2

====
